---- MODULE Spec2Model ----
(***************************************************************************)
(* The interactive pet collector of rust-intro/petDatabase.rs (variant 1)  *)
(* and rust-intro/petDatabase2.rs (variant 2): a prompt/read loop that     *)
(* builds a Vec<Pet> and prints it back once the user answers "no".        *)
(*                                                                         *)
(* Text is modelled as sequences of one-character strings, so trimming,    *)
(* integer parsing, case folding and formatting are computed character by  *)
(* character as the library routines the programs call compute them.       *)
(***************************************************************************)
EXTENDS Integers, Sequences, FiniteSets, TLC

VARIABLES variant, input, pos, pc, name, species, pets, ri, trace,
          exit_code, diag, log, first

vars == <<variant, input, pos, pc, name, species, pets, ri, trace,
          exit_code, diag, log, first>>

(***************************************************************************)
(* Characters and text                                                     *)
(***************************************************************************)
Chars(s) == [i \in 1..Len(s) |-> SubSeq(s, i, i)]

WhiteSpace == {" ", "\t", "\n", "\r"}

Digits == <<"0", "1", "2", "3", "4", "5", "6", "7", "8", "9">>

Upper == Chars("ABCDEFGHIJKLMNOPQRSTUVWXYZ")

Lower == Chars("abcdefghijklmnopqrstuvwxyz")

U8_MAX == 255

RECURSIVE trim_start(_)
trim_start(s) ==
    IF s # <<>> /\ Head(s) \in WhiteSpace THEN trim_start(Tail(s)) ELSE s

RECURSIVE trim_end(_)
trim_end(s) ==
    IF s # <<>> /\ s[Len(s)] \in WhiteSpace
    THEN trim_end(SubSeq(s, 1, Len(s) - 1))
    ELSE s

\* Mutation: only the front of the text is trimmed.
trim_start_only(s) == trim_start(s)

trim(s) == trim_end(trim_start(s))

to_ascii_lowercase(c) ==
    IF \E i \in 1..Len(Upper) : Upper[i] = c
    THEN Lower[CHOOSE i \in 1..Len(Upper) : Upper[i] = c]
    ELSE c

\* Mutation: byte-for-byte comparison.
eq_exact(a, b) == a = b

eq_ignore_ascii_case(a, b) ==
    /\ Len(a) = Len(b)
    /\ \A i \in 1..Len(a) : to_ascii_lowercase(a[i]) = to_ascii_lowercase(b[i])

Ok(v) == [ok |-> TRUE, val |-> v]

Err == [ok |-> FALSE, val |-> 0]

to_digit(c) ==
    IF \E i \in 1..Len(Digits) : Digits[i] = c
    THEN Ok((CHOOSE i \in 1..Len(Digits) : Digits[i] = c) - 1)
    ELSE Err

\* Mutation: the digit loop stops at the first non-digit and keeps the prefix.
RECURSIVE parse_digits_prefix(_, _)
parse_digits_prefix(digits, result) ==
    IF digits = <<>> THEN Ok(result)
    ELSE LET d == to_digit(Head(digits)) IN
         IF ~d.ok THEN Ok(result)
         ELSE IF result * 10 > U8_MAX THEN Err
         ELSE IF result * 10 + d.val > U8_MAX THEN Err
         ELSE parse_digits_prefix(Tail(digits), result * 10 + d.val)

\* The digit loop of the u8 parse: result = result * 10 + digit, each step
\* checked against the width of the type.
RECURSIVE parse_digits(_, _)
parse_digits(digits, result) ==
    IF digits = <<>> THEN Ok(result)
    ELSE LET d == to_digit(Head(digits)) IN
         IF ~d.ok THEN Err
         ELSE IF result * 10 > U8_MAX THEN Err
         ELSE IF result * 10 + d.val > U8_MAX THEN Err
         ELSE parse_digits(Tail(digits), result * 10 + d.val)

\* Mutation: empty text is read as zero.
parse_u8_empty_zero(s) ==
    IF s = <<>> THEN Ok(0)
    ELSE IF Len(s) = 1 /\ s[1] \in {"+", "-"} THEN Err
    ELSE IF s[1] = "+" THEN parse_digits(Tail(s), 0)
    ELSE parse_digits(s, 0)

\* str::parse::<u8>: empty text and a lone sign are errors, one leading "+"
\* is skipped, "-" is not a digit of an unsigned type.
parse_u8(s) ==
    IF s = <<>> THEN Err
    ELSE IF Len(s) = 1 /\ s[1] \in {"+", "-"} THEN Err
    ELSE IF s[1] = "+" THEN parse_digits(Tail(s), 0)
    ELSE parse_digits(s, 0)

\* Display of a u8: decimal digits, no padding.
RECURSIVE to_decimal(_)
to_decimal(n) ==
    IF n < 10 THEN <<Digits[n + 1]>>
    ELSE to_decimal(n \div 10) \o <<Digits[(n % 10) + 1]>>

Pet(n, s, a) == [name |-> n, species |-> s, age |-> a]

report_line(p) ==
    p.name \o Chars(" is a ") \o p.species \o Chars(" and is ")
           \o to_decimal(p.age) \o Chars(" years old\n")

Banner == Chars("It's time to tell us about some pets you've had\n")

PromptText(v, field) ==
    CASE v = 1 /\ field = "name"    -> Chars("What was their name?\n")
      [] v = 1 /\ field = "species" -> Chars("What kind of animal are they?\n")
      [] v = 1 /\ field = "age"     -> Chars("How old are they?\n")
      [] v = 1 /\ field = "cont"    -> Chars("Do you wish to continue?\n")
      [] v = 2 /\ field = "name"    -> Chars("What is their name?: ")
      [] v = 2 /\ field = "species" -> Chars("What kind of animal are they?: ")
      [] v = 2 /\ field = "age"     -> Chars("How old are they?: ")
      [] v = 2 /\ field = "cont"    -> Chars("Do you wish to continue?: ")

ParseMessage(v) ==
    IF v = 1 THEN "Couldn't parse as a number" ELSE "Needed a number"

Sentinel == Chars("no")

(***************************************************************************)
(* Process state                                                           *)
(***************************************************************************)
Running == -1

EXIT_OK == 0

EXIT_ERR == 1

EXIT_PANIC == 101

IoOutcomes == {"ok", "write_err", "read_err"}

WriteEv(tag, text, ok) == [op |-> "write", tag |-> tag, text |-> text, ok |-> ok]

ReadEv(tag, text, ok) == [op |-> "read", tag |-> tag, text |-> text, ok |-> ok]

\* What Stdin::read_line appends to the fresh buffer: the next line with its
\* terminator, or nothing at end of stream (Ok(0)).
stdin_line(inp, p) == IF p <= Len(inp) THEN inp[p] ELSE <<>>

stdin_advance(inp, p) == IF p <= Len(inp) THEN p + 1 ELSE p

\* Mutation: variant 2 does not flush, so the buffered prompt only reaches
\* the terminal after the line has been read.
read_line_noflush(v, field, io, tr, inp, p) ==
    LET prompt == PromptText(v, field)
        raw    == stdin_line(inp, p)
        pair(rd) == IF v = 2 THEN <<rd, WriteEv(field, prompt, TRUE)>>
                             ELSE <<WriteEv(field, prompt, TRUE), rd>>
    IN  CASE io = "write_err" ->
               [status |-> IF v = 1 THEN "panic" ELSE "err",
                msg    |-> IF v = 1 THEN "failed printing to stdout"
                                    ELSE "flush failed",
                text   |-> <<>>,
                pos    |-> p,
                trace  |-> Append(tr, WriteEv(field, prompt, FALSE))]
          [] io = "read_err" ->
               [status |-> IF v = 1 THEN "panic" ELSE "err",
                msg    |-> IF v = 1 THEN "Reading stdin failed"
                                    ELSE "read failed",
                text   |-> <<>>,
                pos    |-> p,
                trace  |-> tr \o pair(ReadEv(field, <<>>, FALSE))]
          [] io = "ok" ->
               [status |-> "ok",
                msg    |-> "",
                text   |-> trim(raw),
                pos    |-> stdin_advance(inp, p),
                trace  |-> tr \o pair(ReadEv(field, raw, TRUE))]

\* Mutation: the helper of variant 2 returns the line as read, untrimmed.
read_line_untrimmed(v, field, io, tr, inp, p) ==
    LET prompt == PromptText(v, field)
        raw    == stdin_line(inp, p)
    IN  CASE io = "write_err" ->
               [status |-> IF v = 1 THEN "panic" ELSE "err",
                msg    |-> IF v = 1 THEN "failed printing to stdout"
                                    ELSE "flush failed",
                text   |-> <<>>,
                pos    |-> p,
                trace  |-> Append(tr, WriteEv(field, prompt, FALSE))]
          [] io = "read_err" ->
               [status |-> IF v = 1 THEN "panic" ELSE "err",
                msg    |-> IF v = 1 THEN "Reading stdin failed"
                                    ELSE "read failed",
                text   |-> <<>>,
                pos    |-> p,
                trace  |-> tr \o <<WriteEv(field, prompt, TRUE),
                                   ReadEv(field, <<>>, FALSE)>>]
          [] io = "ok" ->
               [status |-> "ok",
                msg    |-> "",
                text   |-> IF v = 2 THEN raw ELSE trim(raw),
                pos    |-> stdin_advance(inp, p),
                trace  |-> tr \o <<WriteEv(field, prompt, TRUE),
                                   ReadEv(field, raw, TRUE)>>]

\* One prompt/read pair.  Variant 2 is fn read_line: print!, flush()?,
\* read_line(..)?, Ok(trim).  Variant 1 is the same sequence written inline
\* with println! and .expect(..), so its failures are panics.
read_line(v, field, io, tr, inp, p) ==
    LET prompt == PromptText(v, field)
        raw    == stdin_line(inp, p)
    IN  CASE io = "write_err" ->
               [status |-> IF v = 1 THEN "panic" ELSE "err",
                msg    |-> IF v = 1 THEN "failed printing to stdout"
                                    ELSE "flush failed",
                text   |-> <<>>,
                pos    |-> p,
                trace  |-> Append(tr, WriteEv(field, prompt, FALSE))]
          [] io = "read_err" ->
               [status |-> IF v = 1 THEN "panic" ELSE "err",
                msg    |-> IF v = 1 THEN "Reading stdin failed"
                                    ELSE "read failed",
                text   |-> <<>>,
                pos    |-> p,
                trace  |-> tr \o <<WriteEv(field, prompt, TRUE),
                                   ReadEv(field, <<>>, FALSE)>>]
          [] io = "ok" ->
               [status |-> "ok",
                msg    |-> "",
                text   |-> trim(raw),
                pos    |-> stdin_advance(inp, p),
                trace  |-> tr \o <<WriteEv(field, prompt, TRUE),
                                   ReadEv(field, raw, TRUE)>>]

\* Mutation: the failure is reported and the process then ends normally.
Abort_swallowed(code, msg, tr) ==
    /\ exit_code' = EXIT_OK
    /\ diag' = msg
    /\ trace' = tr
    /\ UNCHANGED <<variant, input, pos, pc, name, species, pets, ri>>

\* The process ends without returning to the loop: a panic (status 101) or
\* main returning Err (status 1).
Abort(code, msg, tr) ==
    /\ exit_code' = code
    /\ diag' = msg
    /\ trace' = tr
    /\ UNCHANGED <<variant, input, pos, pc, name, species, pets, ri>>

RECURSIVE report_all(_, _)
report_all(tr, ps) ==
    IF ps = <<>> THEN tr
    ELSE report_all(Append(tr, WriteEv("report", report_line(Head(ps)), TRUE)),
                    Tail(ps))

\* Mutation: a failed prompt/read prints what was collected before leaving.
AbortRead_report(r) ==
    Abort(IF r.status = "panic" THEN EXIT_PANIC ELSE EXIT_ERR, r.msg,
          report_all(r.trace, pets))

AbortRead(r) ==
    Abort(IF r.status = "panic" THEN EXIT_PANIC ELSE EXIT_ERR, r.msg, r.trace)

(***************************************************************************)
(* Input scripts: the lines standard input will deliver, each with its     *)
(* terminator, then end of stream.                                         *)
(***************************************************************************)
MaxPets == 3

MaxLines == 4

Line(s) == Chars(s) \o <<"\n">>

Entries ==
    {<<Line("Rex"), Line("Dog"), Line("3")>>,
     <<Line("Milo"), Line("Cat"), Line("1")>>}

ContLines == {Line("yes"), Line("no")}

Iterations == {e \o <<c>> : e \in Entries, c \in ContLines}

RECURSIVE Sessions(_)
Sessions(k) ==
    IF k = 0 THEN {<<>>}
    ELSE Sessions(k - 1) \cup
         {x \o it : x \in Sessions(k - 1), it \in Iterations}

NameVariants == {Line("  Rex  "), Line(""), Line("no")}

SpeciesVariants == {Line("Dog"), Chars(" \t\n"), Line("no")}

AgeVariants ==
    {Line("7"), Line("256"), Line("7.0"), Line("7x"), Line("-1"), Line(""),
     Line("+7"), Line("007"), Line(" 42 "), Line("255"), Line("0"),
     Line("1000"), Line("+"), Line("2 5"), Line("no"), Chars("9")}

ContVariants ==
    {Line("no"), Line("No"), Line("NO"), Line("nO"), Line(""), Line("n"),
     Line("nope"), Line("yes"), Line(" no "), Line("on"), Chars("No\r\n"),
     Chars("no")}

SingleEntries ==
    {<<n, s, a, c>> : n \in NameVariants, s \in SpeciesVariants,
                      a \in AgeVariants, c \in ContVariants}

AnyLines == {Line("Rex"), Line("7"), Line("no"), Line(" NO ")}

RECURSIVE Scripts(_)
Scripts(k) ==
    IF k = 0 THEN {<<>>}
    ELSE Scripts(k - 1) \cup
         {x \o <<l>> : x \in Scripts(k - 1), l \in AnyLines}

\* One good entry, then a second entry whose age line varies.
SecondEntries ==
    {<<Line("Rex"), Line("Dog"), Line("3"), Line("yes"),
       Line("Milo"), Line("Cat"), a>> : a \in AgeVariants}

Prefixes(S) == UNION {{SubSeq(x, 1, k) : k \in 0..Len(x)} : x \in S}

Inputs ==
    Prefixes(Sessions(MaxPets) \cup SingleEntries) \cup SecondEntries
        \cup Scripts(MaxLines)

(***************************************************************************)
(* The program                                                             *)
(***************************************************************************)
Init ==
    /\ variant \in {1, 2}
    /\ input \in Inputs
    /\ pos = 1
    /\ pc = "start"
    /\ name = <<>>
    /\ species = <<>>
    /\ pets = <<>>
    /\ ri = 1
    /\ trace = <<>>
    /\ exit_code = Running
    /\ diag = ""
    /\ log = <<>>
    /\ first = <<>>

\* What one step of the run did, as an outside observer sees it: the new
\* state, and the I/O of the step with the wording of the prompts left out.
WithoutPromptText(e) ==
    IF e.op = "write" /\ e.tag \in {"name", "species", "age", "cont"}
    THEN [e EXCEPT !.text = <<>>]
    ELSE e

Observe ==
    /\ log' = Append(log,
                 [pc        |-> pc',
                  pos       |-> pos',
                  name      |-> name',
                  species   |-> species',
                  pets      |-> pets',
                  ri        |-> ri',
                  exit_code |-> exit_code',
                  diag      |-> diag',
                  io        |-> [k \in 1..(Len(trace') - Len(trace)) |->
                                  WithoutPromptText(trace'[Len(trace) + k])]])
    /\ first' = first

\* Mutation: the continuation is asked before the first entry.
Start_ask_first ==
    /\ pc = "start"
    /\ exit_code = Running
    /\ \E io \in {"ok", "write_err"} :
         IF io = "ok"
         THEN /\ trace' = Append(trace, WriteEv("banner", Banner, TRUE))
              /\ pc' = "cont"
              /\ UNCHANGED <<variant, input, pos, name, species, pets, ri,
                             exit_code, diag>>
         ELSE Abort(EXIT_PANIC, "failed printing to stdout",
                    Append(trace, WriteEv("banner", Banner, FALSE)))
    /\ Observe

\* let mut pets = Vec::new(); println!(banner)
Start ==
    /\ pc = "start"
    /\ exit_code = Running
    /\ \E io \in {"ok", "write_err"} :
         IF io = "ok"
         THEN /\ trace' = Append(trace, WriteEv("banner", Banner, TRUE))
              /\ pc' = "name"
              /\ UNCHANGED <<variant, input, pos, name, species, pets, ri,
                             exit_code, diag>>
         ELSE Abort(EXIT_PANIC, "failed printing to stdout",
                    Append(trace, WriteEv("banner", Banner, FALSE)))
    /\ Observe

\* Mutation: the name just read also lands in the record appended last.
ReadName_overwrite ==
    /\ pc = "name"
    /\ exit_code = Running
    /\ \E io \in IoOutcomes :
         LET r == read_line(variant, "name", io, trace, input, pos) IN
         IF r.status = "ok"
         THEN /\ name' = r.text
              /\ pos' = r.pos
              /\ trace' = r.trace
              /\ pc' = "species"
              /\ pets' = IF pets = <<>> THEN pets
                         ELSE [pets EXCEPT ![Len(pets)].name = r.text]
              /\ UNCHANGED <<variant, input, species, ri, exit_code, diag>>
         ELSE AbortRead(r)
    /\ Observe

ReadName ==
    /\ pc = "name"
    /\ exit_code = Running
    /\ \E io \in IoOutcomes :
         LET r == read_line(variant, "name", io, trace, input, pos) IN
         IF r.status = "ok"
         THEN /\ name' = r.text
              /\ pos' = r.pos
              /\ trace' = r.trace
              /\ pc' = "species"
              /\ UNCHANGED <<variant, input, species, pets, ri, exit_code,
                             diag>>
         ELSE AbortRead(r)
    /\ Observe

ReadSpecies ==
    /\ pc = "species"
    /\ exit_code = Running
    /\ \E io \in IoOutcomes :
         LET r == read_line(variant, "species", io, trace, input, pos) IN
         IF r.status = "ok"
         THEN /\ species' = r.text
              /\ pos' = r.pos
              /\ trace' = r.trace
              /\ pc' = "age"
              /\ UNCHANGED <<variant, input, name, pets, ri, exit_code, diag>>
         ELSE AbortRead(r)
    /\ Observe

\* Mutation: the new record is put in front of the older ones.
ReadAge_prepend ==
    /\ pc = "age"
    /\ exit_code = Running
    /\ \E io \in IoOutcomes :
         LET r == read_line(variant, "age", io, trace, input, pos) IN
         IF r.status = "ok"
         THEN LET age == parse_u8(r.text) IN
              IF age.ok
              THEN /\ pets' = <<Pet(name, species, age.val)>> \o pets
                   /\ pos' = r.pos
                   /\ trace' = r.trace
                   /\ pc' = "cont"
                   /\ UNCHANGED <<variant, input, name, species, ri,
                                  exit_code, diag>>
              ELSE /\ pos' = r.pos
                   /\ exit_code' = EXIT_PANIC
                   /\ diag' = ParseMessage(variant)
                   /\ trace' = r.trace
                   /\ UNCHANGED <<variant, input, pc, name, species, pets,
                                  ri>>
         ELSE AbortRead(r)
    /\ Observe

\* Mutation: a failed parse asks for the age again instead of panicking.
ReadAge_retry ==
    /\ pc = "age"
    /\ exit_code = Running
    /\ \E io \in IoOutcomes :
         LET r == read_line(variant, "age", io, trace, input, pos) IN
         IF r.status = "ok"
         THEN LET age == parse_u8(r.text) IN
              IF age.ok
              THEN /\ pets' = Append(pets, Pet(name, species, age.val))
                   /\ pos' = r.pos
                   /\ trace' = r.trace
                   /\ pc' = "cont"
                   /\ UNCHANGED <<variant, input, name, species, ri,
                                  exit_code, diag>>
              ELSE /\ pos' = r.pos
                   /\ trace' = r.trace
                   /\ UNCHANGED <<variant, input, pc, name, species, pets,
                                  ri, exit_code, diag>>
         ELSE AbortRead(r)
    /\ Observe

\* Mutation: a failed parse falls back to age 0 and the record is kept.
ReadAge_default ==
    /\ pc = "age"
    /\ exit_code = Running
    /\ \E io \in IoOutcomes :
         LET r == read_line(variant, "age", io, trace, input, pos) IN
         IF r.status = "ok"
         THEN LET age == parse_u8(r.text) IN
              /\ pets' = Append(pets, Pet(name, species, age.val))
              /\ pos' = r.pos
              /\ trace' = r.trace
              /\ pc' = "cont"
              /\ UNCHANGED <<variant, input, name, species, ri, exit_code,
                             diag>>
         ELSE AbortRead(r)
    /\ Observe

\* Read the age, parse it as u8 (.expect panics on Err), build the Pet and
\* push it.
ReadAge ==
    /\ pc = "age"
    /\ exit_code = Running
    /\ \E io \in IoOutcomes :
         LET r == read_line(variant, "age", io, trace, input, pos) IN
         IF r.status = "ok"
         THEN LET age == parse_u8(r.text) IN
              IF age.ok
              THEN /\ pets' = Append(pets, Pet(name, species, age.val))
                   /\ pos' = r.pos
                   /\ trace' = r.trace
                   /\ pc' = "cont"
                   /\ UNCHANGED <<variant, input, name, species, ri,
                                  exit_code, diag>>
              ELSE /\ pos' = r.pos
                   /\ exit_code' = EXIT_PANIC
                   /\ diag' = ParseMessage(variant)
                   /\ trace' = r.trace
                   /\ UNCHANGED <<variant, input, pc, name, species, pets,
                                  ri>>
         ELSE AbortRead(r)
    /\ Observe

\* Mutation: the vector is created afresh on every turn of the loop.
ReadCont_reset ==
    /\ pc = "cont"
    /\ exit_code = Running
    /\ \E io \in IoOutcomes :
         LET r == read_line(variant, "cont", io, trace, input, pos) IN
         IF r.status = "ok"
         THEN /\ pos' = r.pos
              /\ trace' = r.trace
              /\ pc' = IF eq_ignore_ascii_case(r.text, Sentinel)
                       THEN "report" ELSE "name"
              /\ pets' = IF eq_ignore_ascii_case(r.text, Sentinel)
                         THEN pets ELSE <<>>
              /\ UNCHANGED <<variant, input, name, species, ri, exit_code,
                             diag>>
         ELSE AbortRead(r)
    /\ Observe

\* Ask whether to continue; break on "no" in any letter case.
ReadCont ==
    /\ pc = "cont"
    /\ exit_code = Running
    /\ \E io \in IoOutcomes :
         LET r == read_line(variant, "cont", io, trace, input, pos) IN
         IF r.status = "ok"
         THEN /\ pos' = r.pos
              /\ trace' = r.trace
              /\ pc' = IF eq_ignore_ascii_case(r.text, Sentinel)
                       THEN "report" ELSE "name"
              /\ UNCHANGED <<variant, input, name, species, pets, ri,
                             exit_code, diag>>
         ELSE AbortRead(r)
    /\ Observe

\* Mutation: the records are printed last to first.
Report_reverse ==
    /\ pc = "report"
    /\ exit_code = Running
    /\ ri <= Len(pets)
    /\ \E io \in {"ok", "write_err"} :
         LET p == pets[Len(pets) + 1 - ri] IN
         IF io = "ok"
         THEN /\ trace' = Append(trace, WriteEv("report", report_line(p), TRUE))
              /\ ri' = ri + 1
              /\ UNCHANGED <<variant, input, pos, pc, name, species, pets,
                             exit_code, diag>>
         ELSE Abort(EXIT_PANIC, "failed printing to stdout",
                    Append(trace, WriteEv("report", report_line(p), FALSE)))
    /\ Observe

\* One turn of: for p in pets { println!(..) }
Report ==
    /\ pc = "report"
    /\ exit_code = Running
    /\ ri <= Len(pets)
    /\ \E io \in {"ok", "write_err"} :
         IF io = "ok"
         THEN /\ trace' = Append(trace,
                                 WriteEv("report", report_line(pets[ri]), TRUE))
              /\ ri' = ri + 1
              /\ UNCHANGED <<variant, input, pos, pc, name, species, pets,
                             exit_code, diag>>
         ELSE Abort(EXIT_PANIC, "failed printing to stdout",
                    Append(trace,
                           WriteEv("report", report_line(pets[ri]), FALSE)))
    /\ Observe

\* Mutation: after the report the program goes back to collecting.
Exit_restart ==
    /\ pc = "report"
    /\ exit_code = Running
    /\ ri > Len(pets)
    /\ pc' = "name"
    /\ ri' = 1
    /\ UNCHANGED <<variant, input, pos, name, species, pets, trace,
                   exit_code, diag>>
    /\ Observe

\* The for loop is exhausted and main returns.
Exit ==
    /\ pc = "report"
    /\ exit_code = Running
    /\ ri > Len(pets)
    /\ exit_code' = EXIT_OK
    /\ UNCHANGED <<variant, input, pos, pc, name, species, pets, ri, trace,
                   diag>>
    /\ Observe

Next ==
    \/ Start
    \/ ReadName
    \/ ReadSpecies
    \/ ReadAge
    \/ ReadCont
    \/ Report
    \/ Exit

Spec == Init /\ [][Next]_vars

TypeOK ==
    /\ variant \in {1, 2}
    /\ pos \in 1..(Len(input) + 1)
    /\ pc \in {"start", "name", "species", "age", "cont", "report"}
    /\ ri \in 1..(Len(pets) + 1)
    /\ exit_code \in {Running, EXIT_OK, EXIT_ERR, EXIT_PANIC}
    /\ \A i \in 1..Len(pets) : pets[i].age \in 0..U8_MAX

(***************************************************************************)
(* Vocabulary of the properties, stated without the program's routines     *)
(***************************************************************************)
Last(s) == s[Len(s)]

ReadEvents == SelectSeq(trace, LAMBDA e : e.op = "read")

\* t is l without its leading and trailing whitespace.
IsTrimOf(t, l) ==
    \E i \in 1..(Len(l) + 1), j \in 0..Len(l) :
        /\ t = SubSeq(l, i, j)
        /\ \A k \in 1..Len(l) : (k < i \/ k > j) => l[k] \in WhiteSpace
        /\ t # <<>> => (t[1] \notin WhiteSpace /\ t[Len(t)] \notin WhiteSpace)

Trimmed(l) ==
    CHOOSE t \in {SubSeq(l, i, j) : i \in 1..(Len(l) + 1), j \in 0..Len(l)} :
        IsTrimOf(t, l)

DigitChars == {Digits[i] : i \in 1..Len(Digits)}

DigitValue(c) == CHOOSE k \in 0..9 : Digits[k + 1] = c

Unsigned(t) == IF t # <<>> /\ t[1] = "+" THEN Tail(t) ELSE t

\* Integer text: decimal digits only, optionally after one "+".
IsIntegerText(t) ==
    /\ Unsigned(t) # <<>>
    /\ \A i \in 1..Len(Unsigned(t)) : Unsigned(t)[i] \in DigitChars

RECURSIVE Pow10(_)
Pow10(k) == IF k = 0 THEN 1 ELSE 10 * Pow10(k - 1)

RECURSIVE PlaceSum(_, _)
PlaceSum(d, i) ==
    IF i = 0 THEN 0
    ELSE DigitValue(d[i]) * Pow10(Len(d) - i) + PlaceSum(d, i - 1)

IntegerValue(t) == PlaceSum(Unsigned(t), Len(Unsigned(t)))

ValidAgeText(t) == IsIntegerText(t) /\ IntegerValue(t) <= U8_MAX

NoCasings == {Chars("no"), Chars("No"), Chars("nO"), Chars("NO")}

IsSentinelLine(l) == Trimmed(l) \in NoCasings

\* A line as the specification's line source hands it over: terminator off.
StripTerminator(l) ==
    IF l # <<>> /\ Last(l) = "\n"
    THEN LET m == SubSeq(l, 1, Len(l) - 1) IN
         IF m # <<>> /\ Last(m) = "\r" THEN SubSeq(m, 1, Len(m) - 1) ELSE m
    ELSE l

Done == pc = "report"

\* N complete iterations, valid ages, only the last answer is the sentinel.
WellFormed(inp) ==
    /\ Len(inp) >= 4
    /\ Len(inp) % 4 = 0
    /\ \A i \in 1..(Len(inp) \div 4) :
         /\ ValidAgeText(Trimmed(inp[4 * i - 1]))
         /\ IsSentinelLine(inp[4 * i]) <=> (i = Len(inp) \div 4)

(***************************************************************************)
(* C1: for an input of N well-formed iterations ended by the sentinel, the *)
(* collection at loop exit has exactly N records in entry order, record i  *)
(* holding the trimmed i-th name and species lines and the integer value   *)
(* of the i-th age line; such a run never aborts on a parse.               *)
(***************************************************************************)
C1_WellFormedRunCollectsAll ==
    WellFormed(input) =>
        /\ diag # ParseMessage(variant)
        /\ Done =>
             /\ Len(pets) = Len(input) \div 4
             /\ pos = Len(input) + 1
             /\ \A i \in 1..Len(pets) :
                  /\ IsTrimOf(pets[i].name, input[4 * i - 3])
                  /\ IsTrimOf(pets[i].species, input[4 * i - 2])
                  /\ pets[i].age = IntegerValue(Trimmed(input[4 * i - 1]))

C1_Witness ==
    /\ Done
    /\ WellFormed(input)
    /\ Len(pets) = 2
    /\ pets[1] # pets[2]

(***************************************************************************)
(* C2 as stated: the loop leaves COLLECTING exactly when the line read at  *)
(* the continuation prompt, terminator stripped, is "no" in some letter    *)
(* case.                                                                   *)
(***************************************************************************)
ContStep == pc = "cont" /\ exit_code = Running /\ exit_code' = Running

C2_ExactLineEndsLoop ==
    [][ContStep =>
         (Done' <=> StripTerminator(Last(trace').text) \in NoCasings)]_vars

(***************************************************************************)
(* C2, amended: the loop moves from COLLECTING to DONE if and only if the  *)
(* line read at the continuation prompt, with its leading and trailing     *)
(* whitespace removed, equals "no" compared case-insensitively; "no",      *)
(* "No", "NO" and "nO" end the loop, "", "n", "nope" and "yes" start       *)
(* another iteration, and no read at the name, species or age prompt moves *)
(* the loop to DONE.                                                       *)
(***************************************************************************)
C2_TrimmedSentinelEndsLoop ==
    [][/\ ContStep =>
            LET l == Last(trace').text IN
            /\ Done' <=> IsSentinelLine(l)
            /\ ~Done' => pc' = "name"
            /\ l \in {Line("no"), Line("No"), Line("NO"), Line("nO")}
                 => Done'
            /\ l \in {Line(""), Line("n"), Line("nope"), Line("yes")}
                 => pc' = "name"
       /\ pc \in {"start", "name", "species", "age"} => ~Done']_vars

C2_Witness ==
    /\ Done
    /\ Last(trace).op = "read"
    /\ Last(trace).text = Line("nO")
    /\ \E i \in 1..Len(trace) :
         /\ trace[i].op = "read"
         /\ trace[i].tag = "name"
         /\ trace[i].text = Line("no")

(***************************************************************************)
(* C3: a read that finds the input exhausted fails with an I/O failure     *)
(* that ends the run; end of stream is never taken as a line that was      *)
(* read successfully.                                                      *)
(***************************************************************************)
IoFailureMessages ==
    {"Reading stdin failed", "read failed", "flush failed",
     "failed printing to stdout"}

C3_EndOfStreamIsIoFailure ==
    [][(/\ exit_code = Running
        /\ pc \in {"name", "species", "age", "cont"}
        /\ pos > Len(input))
       => (/\ exit_code' \in {EXIT_ERR, EXIT_PANIC}
           /\ diag' \in IoFailureMessages
           /\ ~Last(trace').ok)]_vars

(***************************************************************************)
(* C4: an age line that fails to parse aborts the run at that point: the   *)
(* record is not appended, and no prompt, read or report follows.          *)
(***************************************************************************)
ParseAborted == exit_code = EXIT_PANIC /\ diag = ParseMessage(variant)

C4_ParseFailureAborts ==
    [][/\ (/\ pc = "age"
           /\ exit_code = Running
           /\ Last(trace').op = "read"
           /\ Last(trace').ok
           /\ ~ValidAgeText(Trimmed(Last(trace').text)))
          => /\ ParseAborted'
             /\ pets' = pets
             /\ Len(trace') = Len(trace) + 2
       /\ ParseAborted => FALSE]_vars

C4_Witness ==
    /\ ParseAborted
    /\ Len(pets) = 1
    /\ Last(trace).tag = "age"
    /\ Last(trace).text = Line("7x")

(***************************************************************************)
(* C5: the age parse accepts the trimmed age line exactly when the whole   *)
(* text is integer text with a value in 0..255, and yields that value:     *)
(* "7" gives 7; "256", "7.0", "7x", "-1" and "" fail; a numeric prefix of  *)
(* a longer text is never accepted.                                        *)
(***************************************************************************)
AfterAgeRead ==
    /\ trace # <<>>
    /\ Last(trace).op = "read"
    /\ Last(trace).tag = "age"
    /\ Last(trace).ok

C5_StrictU8Parse ==
    AfterAgeRead =>
        LET l == Last(trace).text
            t == Trimmed(l)
            accepted == exit_code = Running /\ pc = "cont"
        IN  /\ accepted <=> ValidAgeText(t)
            /\ ~accepted <=> ParseAborted
            /\ accepted => Last(pets).age = IntegerValue(t)
            /\ accepted => \A i \in 1..Len(t) : t[i] \in DigitChars \cup {"+"}
            /\ l = Line("7") => accepted /\ Last(pets).age = 7
            /\ l \in {Line("256"), Line("7.0"), Line("7x"), Line("-1"),
                      Line("")} => ~accepted

C5_Witness ==
    /\ AfterAgeRead
    /\ Last(trace).text = Line("255")
    /\ pc = "cont"
    /\ Last(pets).age = 255

(***************************************************************************)
(* C6: every element of the collection is a fully validated record: its    *)
(* age is in 0..255 and is the value of a successfully parsed age line,    *)
(* and its name, species and age come from the three lines read in one     *)
(* iteration; nothing is appended before that iteration's age has parsed.  *)
(***************************************************************************)
C6_OnlyValidatedRecords ==
    \A i \in 1..Len(pets) :
        /\ 4 * i - 1 <= Len(ReadEvents)
        /\ LET n == ReadEvents[4 * i - 3]
               s == ReadEvents[4 * i - 2]
               a == ReadEvents[4 * i - 1]
           IN  /\ n.tag = "name" /\ s.tag = "species" /\ a.tag = "age"
               /\ n.ok /\ s.ok /\ a.ok
               /\ pets[i].age \in 0..U8_MAX
               /\ ValidAgeText(Trimmed(a.text))
               /\ pets[i].age = IntegerValue(Trimmed(a.text))
               /\ IsTrimOf(pets[i].name, n.text)
               /\ IsTrimOf(pets[i].species, s.text)

C6_Witness ==
    /\ Len(pets) = 1
    /\ pc = "age"
    /\ exit_code = Running
    /\ name # pets[1].name
    /\ species # pets[1].species

(***************************************************************************)
(* C7: the loop cannot reach DONE with zero records: a continuation prompt *)
(* is only issued after an entry has been appended, so a run that left the *)
(* loop holds at least one record, even when the first input line is "no". *)
(***************************************************************************)
ContPrompts ==
    SelectSeq(trace, LAMBDA e : e.op = "write" /\ e.tag = "cont")

C7_DoneHasARecord ==
    /\ Done => Len(pets) >= 1
    /\ exit_code = EXIT_OK => Len(pets) >= 1
    /\ Len(ContPrompts) <= Len(pets)

C7_Witness ==
    /\ Done
    /\ input # <<>>
    /\ input[1] = Line("no")
    /\ Len(pets) = 1
    /\ pets[1].name = Chars("no")

(***************************************************************************)
(* C8: DONE is terminal and the report runs once, after DONE: no report    *)
(* line is written while COLLECTING; once DONE the loop stays DONE, no     *)
(* prompt is issued, no line is read, no record is appended; a run that    *)
(* ends normally has written each record once.                             *)
(***************************************************************************)
ReportWrites ==
    SelectSeq(trace, LAMBDA e : e.op = "write" /\ e.tag = "report" /\ e.ok)

C8_DoneIsTerminal ==
    /\ [](~Done => ReportWrites = <<>>)
    /\ [](Len(ReportWrites) <= Len(pets))
    /\ [](exit_code = EXIT_OK => Done /\ Len(ReportWrites) = Len(pets))
    /\ [][Done =>
            /\ Done'
            /\ pets' = pets
            /\ pos' = pos
            /\ Len(trace') >= Len(trace)
            /\ SubSeq(trace', 1, Len(trace)) = trace
            /\ \A k \in (Len(trace) + 1)..Len(trace') :
                 trace'[k].op = "write" /\ trace'[k].tag = "report"]_vars

C8_Witness ==
    /\ exit_code = EXIT_OK
    /\ Len(pets) = 1
    /\ pos <= Len(input)
    /\ Len(ReportWrites) = 1

(***************************************************************************)
(* C9: on normal termination the report is exactly one line per collected  *)
(* record, in insertion order, each "<name> is a <species> and is <age>    *)
(* years old"; the input Rex, Dog, 3, yes, Milo, Cat, 1, no reports Rex    *)
(* and then Milo.                                                          *)
(***************************************************************************)
DigitTexts == UNION {[1..k -> DigitChars] : k \in 1..3}

\* The decimal numeral of n: no sign, no leading zero.
Numeral(n) ==
    CHOOSE d \in DigitTexts :
        /\ Len(d) = 1 \/ d[1] # "0"
        /\ IntegerValue(d) = n

ExpectedReportLine(p) ==
    p.name \o Chars(" is a ") \o p.species \o Chars(" and is ")
           \o Numeral(p.age) \o Chars(" years old")

RexMilo ==
    <<Line("Rex"), Line("Dog"), Line("3"), Line("yes"),
      Line("Milo"), Line("Cat"), Line("1"), Line("no")>>

C9_ReportInInsertionOrder ==
    exit_code = EXIT_OK =>
        /\ Len(ReportWrites) = Len(pets)
        /\ \A i \in 1..Len(pets) :
             /\ Last(ReportWrites[i].text) = "\n"
             /\ StripTerminator(ReportWrites[i].text)
                  = ExpectedReportLine(pets[i])
        /\ input = RexMilo =>
             /\ pets = <<[name |-> Chars("Rex"), species |-> Chars("Dog"),
                          age |-> 3],
                         [name |-> Chars("Milo"), species |-> Chars("Cat"),
                          age |-> 1]>>
             /\ [i \in 1..2 |-> ReportWrites[i].text]
                  = <<Line("Rex is a Dog and is 3 years old"),
                      Line("Milo is a Cat and is 1 years old")>>

C9_Witness ==
    /\ exit_code = EXIT_OK
    /\ input = RexMilo
    /\ Len(ReportWrites) = 2

(***************************************************************************)
(* C10: the collection starts empty and grows by exactly one element per   *)
(* completed iteration: its length always equals the number of iterations  *)
(* whose age line parsed successfully, and it never shrinks.               *)
(***************************************************************************)
ParsedAgeReads ==
    SelectSeq(trace, LAMBDA e : /\ e.op = "read"
                                /\ e.tag = "age"
                                /\ e.ok
                                /\ ValidAgeText(Trimmed(e.text)))

C10_LengthCountsParsedAges ==
    /\ [](pc = "start" => pets = <<>>)
    /\ [](Len(pets) = Len(ParsedAgeReads))
    /\ [][/\ Len(pets') \in {Len(pets), Len(pets) + 1}
          /\ SubSeq(pets', 1, Len(pets)) = pets
          /\ Len(pets') = Len(pets) + 1 <=> (pc = "age" /\ pc' = "cont")]_vars

C10_Witness ==
    /\ ParseAborted
    /\ Len(pets) = 2
    /\ pos > Len(input)

(***************************************************************************)
(* C11: prompts and reads strictly alternate: every read comes right after *)
(* exactly one prompt, the prompt of its own field; no prompt is written   *)
(* while a read is pending; and the prompts follow the fixed order name,   *)
(* species, age, continuation, one per field per iteration.                *)
(***************************************************************************)
FieldOrder == <<"name", "species", "age", "cont">>

Fields == {FieldOrder[i] : i \in 1..Len(FieldOrder)}

IsPrompt(e) == e.op = "write" /\ e.tag \in Fields

Prompts == SelectSeq(trace, IsPrompt)

C11_PromptThenRead ==
    /\ \A k \in 1..Len(trace) :
         /\ trace[k].op = "read" =>
              /\ k > 1
              /\ IsPrompt(trace[k - 1])
              /\ trace[k - 1].ok
              /\ trace[k - 1].tag = trace[k].tag
              /\ trace[k - 1].text = PromptText(variant, trace[k].tag)
         /\ (IsPrompt(trace[k]) /\ trace[k].ok) =>
              /\ k < Len(trace)
              /\ trace[k + 1].op = "read"
         /\ (IsPrompt(trace[k]) /\ ~trace[k].ok) => k = Len(trace)
    /\ \A j \in 1..Len(Prompts) :
         Prompts[j].tag = FieldOrder[((j - 1) % 4) + 1]
    /\ Len(Prompts) \in {Len(ReadEvents), Len(ReadEvents) + 1}

C11_Witness ==
    /\ variant = 2
    /\ Len(ReadEvents) = 8
    /\ Len(Prompts) = 8
    /\ Done

(***************************************************************************)
(* C12: name and species are stored without their leading and trailing     *)
(* whitespace ("  Rex  " is stored as "Rex"); an empty or whitespace-only  *)
(* line is accepted, stored as the empty text, and the iteration goes on   *)
(* to the next prompt.                                                     *)
(***************************************************************************)
AfterRead(tag) ==
    /\ trace # <<>>
    /\ Last(trace).op = "read"
    /\ Last(trace).tag = tag
    /\ Last(trace).ok

AllWhiteSpace(l) == \A k \in 1..Len(l) : l[k] \in WhiteSpace

NoOuterWhiteSpace(t) ==
    t # <<>> => (t[1] \notin WhiteSpace /\ Last(t) \notin WhiteSpace)

StoredTrimmed(stored, l, nextpc) ==
    /\ exit_code = Running
    /\ pc = nextpc
    /\ IsTrimOf(stored, l)
    /\ l = Line("  Rex  ") => stored = Chars("Rex")
    /\ AllWhiteSpace(l) => stored = <<>>

C12_FieldsTrimmedEmptyAccepted ==
    /\ AfterRead("name") => StoredTrimmed(name, Last(trace).text, "species")
    /\ AfterRead("species") => StoredTrimmed(species, Last(trace).text, "age")
    /\ \A i \in 1..Len(pets) :
         /\ NoOuterWhiteSpace(pets[i].name)
         /\ NoOuterWhiteSpace(pets[i].species)
         /\ IsTrimOf(pets[i].name, ReadEvents[4 * i - 3].text)
         /\ IsTrimOf(pets[i].species, ReadEvents[4 * i - 2].text)

C12_Witness ==
    /\ Len(pets) = 1
    /\ input[1] = Line("  Rex  ")
    /\ input[2] = Chars(" \t\n")
    /\ pets[1].name = Chars("Rex")
    /\ pets[1].species = <<>>

(***************************************************************************)
(* C13: a record is immutable once appended: every step leaves the old     *)
(* collection as a prefix of the new one (nothing is changed, reordered or *)
(* removed); reading a name, species or continuation line leaves the       *)
(* collection as it is, and the age step either leaves it or appends the   *)
(* one record built from the current name, species and age.                *)
(***************************************************************************)
IsPrefix(a, b) == Len(a) <= Len(b) /\ SubSeq(b, 1, Len(a)) = a

C13_AppendedRecordsAreFrozen ==
    [][/\ IsPrefix(pets, pets')
       /\ pc \in {"start", "name", "species", "cont", "report"}
            => pets' = pets
       /\ pc = "age" =>
            \/ pets' = pets
            \/ pets' = Append(pets,
                         [name    |-> name,
                          species |-> species,
                          age     |-> IntegerValue(Trimmed(Last(trace').text))])
      ]_vars

C13_Witness ==
    /\ exit_code = EXIT_OK
    /\ Len(pets) = 3
    /\ pets[1] # pets[2]
    /\ Len(ReportWrites) = 3

(***************************************************************************)
(* C14: the process exits with status 0 exactly when the run reached DONE  *)
(* and the report was written in full; a run ended by an age parse failure *)
(* or an I/O failure exits with a non-zero status, and no run exits with   *)
(* status 0 without its report.                                            *)
(***************************************************************************)
IoFailed == \E k \in 1..Len(trace) : ~trace[k].ok

ParseFailed ==
    \E k \in 1..Len(trace) :
        /\ trace[k].op = "read"
        /\ trace[k].tag = "age"
        /\ trace[k].ok
        /\ ~ValidAgeText(Trimmed(trace[k].text))

ReportComplete == Done /\ Len(ReportWrites) = Len(pets)

C14_ExitStatus ==
    /\ exit_code = EXIT_OK => (ReportComplete /\ ~IoFailed /\ ~ParseFailed)
    /\ (exit_code # Running /\ ReportComplete) => exit_code = EXIT_OK
    /\ (IoFailed \/ ParseFailed) => exit_code \in {EXIT_ERR, EXIT_PANIC}
    /\ ParseFailed => (exit_code = EXIT_PANIC /\ diag = ParseMessage(variant))
    /\ IoFailed => diag \in IoFailureMessages

C14_Witness ==
    /\ exit_code = EXIT_ERR
    /\ diag = "read failed"
    /\ Len(pets) = 1
    /\ Last(trace).tag = "cont"

(***************************************************************************)
(* C15: on a finite input the collector eventually stops, by finishing the *)
(* report or by aborting; against an exhausted input it issues at most the *)
(* prompts of one more iteration, never an endless series.                 *)
(***************************************************************************)
\* A sequential program whose reads return at once on a finite stream keeps
\* taking its next step.
FairSpec == Spec /\ WF_vars(Next)

EofReads ==
    SelectSeq(trace, LAMBDA e : e.op = "read" /\ e.ok /\ e.text = <<>>)

Stopped == exit_code # Running

C15_FiniteInputStops ==
    /\ [](Len(EofReads) <= Len(FieldOrder))
    /\ [](Len(EofReads) > 0 => pos > Len(input))
    /\ <>Stopped

C15_Witness ==
    /\ Stopped
    /\ ParseAborted
    /\ Len(EofReads) = 4
    /\ Len(pets) = 1

(***************************************************************************)
(* C16: a run that aborts inside the loop, by an age parse failure or an   *)
(* I/O failure in iteration k > 1, never reports any of the k-1 records it *)
(* had appended: it has written no report line and takes no further step.  *)
(***************************************************************************)
Aborted == exit_code \in {EXIT_ERR, EXIT_PANIC}

AbortedInLoop == Aborted /\ ~Done

ReportAttempts ==
    SelectSeq(trace, LAMBDA e : e.op = "write" /\ e.tag = "report")

C16_AbortInLoopReportsNothing ==
    /\ [](AbortedInLoop => (ReportAttempts = <<>> /\ ri = 1))
    /\ [][Aborted => FALSE]_vars

C16_Witness ==
    /\ AbortedInLoop
    /\ diag = "Reading stdin failed"
    /\ Len(pets) = 2
    /\ ReportAttempts = <<>>

(***************************************************************************)
(* The two programs on one input: petDatabase.rs runs to its end without   *)
(* I/O failure, its observations are kept in first, and petDatabase2.rs is *)
(* then started on the same lines.                                         *)
(***************************************************************************)
PairInit == Init /\ variant = 1

Switch ==
    /\ variant = 1
    /\ exit_code # Running
    /\ \A k \in 1..Len(trace) : trace[k].ok
    /\ variant' = 2
    /\ first' = log
    /\ log' = <<>>
    /\ pos' = 1
    /\ pc' = "start"
    /\ name' = <<>>
    /\ species' = <<>>
    /\ pets' = <<>>
    /\ ri' = 1
    /\ trace' = <<>>
    /\ exit_code' = Running
    /\ diag' = ""
    /\ UNCHANGED input

PairNext == Next \/ Switch

PairSpec == PairInit /\ [][PairNext]_vars

SecondRun == variant = 2 /\ first # <<>> /\ ~IoFailed

(***************************************************************************)
(* C17 as stated: stepped side by side on the same input without I/O       *)
(* errors, the two variants agree after every step on everything they do   *)
(* and hold, the wording of the prompts excepted (stated here for runs     *)
(* that never meet the end of the input).                                  *)
(***************************************************************************)
C17_DifferOnlyInPromptText ==
    (SecondRun /\ EofReads = <<>>) =>
        /\ Len(log) <= Len(first)
        /\ \A k \in 1..Len(log) : log[k] = first[k]

(***************************************************************************)
(* C17, amended: on every input without I/O errors the two variants,       *)
(* stepped side by side, consume lines at the same points, hold equal      *)
(* collections after every step, end in the same way (DONE or parse abort, *)
(* with the same exit status) at the same input position, and write the    *)
(* same report lines; they differ only in the prompt text and in the       *)
(* wording of the parse-failure message.                                   *)
(***************************************************************************)
WithoutDiag(o) == [o EXCEPT !.diag = ""]

C17_VariantsEquivalent ==
    SecondRun =>
        /\ Len(log) <= Len(first)
        /\ \A k \in 1..Len(log) :
             /\ WithoutDiag(log[k]) = WithoutDiag(first[k])
             /\ log[k].diag = ParseMessage(2) <=> first[k].diag = ParseMessage(1)
             /\ log[k].diag \in {"", ParseMessage(2)}
        /\ Stopped => Len(log) = Len(first)

C17_Witness ==
    /\ SecondRun
    /\ exit_code = EXIT_OK
    /\ Len(pets) = 2
    /\ Len(log) = Len(first)
    /\ input[1] = Line("Milo")

====
